---- MODULE Spec2Model ----
(***************************************************************************)
(* Model of the server's two orchestration routes:                         *)
(*   - the trending route (rate limiter + NodeCache + GNews upstream call), *)
(*   - the analyze route (extraction, three parallel AI calls, join,       *)
(*     persistence).                                                       *)
(* Node runs each handler to its next `await` without interleaving, so     *)
(* every action below is one such synchronous segment of a handler.        *)
(* Instants are milliseconds since the epoch (Date.now()); a calendar day  *)
(* (toDateString()) is the instant divided by the milliseconds of a day.   *)
(* A synchronous segment reads the clock once; the clock never runs back.  *)
(***************************************************************************)
EXTENDS Integers, Sequences, FiniteSets, TLC

VARIABLES
    now,              \* the wall clock, Date.now()
    ticks,            \* number of clock advances made so far (bounds the model)
    lastRequestTime,  \* trending: instant of the last consumption
    dailyRequests,    \* trending: consumptions counted for lastResetDate
    lastResetDate,    \* trending: calendar day the counter belongs to
    cache,            \* trending: the NodeCache slot 'trending-news'
    apiKeySet,        \* trending: GNEWS_API_KEY configured (not the placeholder)
    treq,             \* trending: per handler slot, the request in flight
    last,             \* trending: the response the latest step sent, if it sent one
    calls,            \* trending: history of the upstream calls started
    areq,             \* analyze: the request, its handler position and articleText
    settled,          \* analyze: outcome of each of the three AI calls
    aresp,            \* analyze: the response sent
    out,              \* analyze: history of the outbound calls issued
    stored            \* analyze: documents in the predictions collection

tvars == <<now, ticks, lastRequestTime, dailyRequests, lastResetDate, cache,
           apiKeySet, treq, last, calls>>

avars == <<areq, settled, aresp, out, stored>>

vars == <<now, ticks, lastRequestTime, dailyRequests, lastResetDate, cache,
          apiKeySet, treq, last, calls, areq, settled, aresp, out, stored>>

----------------------------------------------------------------------------
(* Bounds of the model *)

\* the configured GNEWS_RATE_LIMIT_PER_DAY (the code's default is '100')
DailyLimit == 2
\* number of trending requests that can be in flight together
NumTrending == 2
\* number of clock advances
MaxTicks == 4

----------------------------------------------------------------------------
(* Program constants *)

PacingMs == 1000
StdTTL == 1800
UpstreamTimeoutMs == 10000
RetryAfter == 3600

MsPerDay == 24 * 60 * 60 * 1000
TtlMs == StdTTL * 1000

DailyMsg == "Daily rate limit exceeded"
PacingMsg == "Rate limit: Please wait before making another request"
NoKeyMsg == "GNews API key not configured"
Upstream429Msg == "GNews API rate limit exceeded"
Upstream401Msg == "Invalid GNews API key"
UpstreamFailMsg == "Failed to fetch trending news"

\* clock advances the model takes: just under the pacing interval, the
\* remaining millisecond, the cache TTL
Deltas == {1, PacingMs - 1, TtlMs}

\* instants at which the process may have started: the first millisecond of a
\* day, or one pacing interval before midnight
StartInstants == {MsPerDay, 2 * MsPerDay - PacingMs}

TrendingIds == 1..NumTrending

\* what the GNews API answers on a 2xx with a usable article list
Payloads == { [articles |-> "feedA", count |-> 2, totalArticles |-> 0],
              [articles |-> "feedB", count |-> 1, totalArticles |-> 5] }

Max(a, b) == IF a >= b THEN a ELSE b
Min(a, b) == IF a <= b THEN a ELSE b

\* new Date().toDateString() of the instant t
Day(t) == t \div MsPerDay

----------------------------------------------------------------------------
(* Trending: values *)

NoResult == [articles |-> "none", totalResults |-> 0, timestamp |-> 0,
             remainingRequests |-> 0]

NoEntry == [present |-> FALSE, value |-> NoResult, expiresAt |-> 0]

\* a handler slot with no request in it
IdleReq == [pc |-> "idle", callAt |-> 0]

\* the step sent no response
NoResponse == [path |-> "none", status |-> 0, error |-> "none",
               retryAfter |-> <<>>, body |-> NoResult, upstream |-> "none"]

\* res.status(status).json(...) ; path tells which branch of the handler sent
\* it, upstream how the upstream call it answers for ended (if it made one)
Response(path, status, error, retry, body) ==
    [path |-> path, status |-> status, error |-> error,
     retryAfter |-> retry, body |-> body, upstream |-> "none"]

----------------------------------------------------------------------------
(* Trending: the cache, NodeCache({ stdTTL: 1800 }) *)

CacheGetMiss(c, t) == [found |-> FALSE, value |-> NoResult]

CacheGetNoExpiry(c, t) ==
    IF c.present
    THEN [found |-> TRUE, value |-> c.value]
    ELSE [found |-> FALSE, value |-> NoResult]

\* cache.get: the entry is served unless its expiry lies before the clock
\* (node-cache drops an entry when data.t < Date.now(), so it is still
\* served in the millisecond of its expiry)
CacheGet(c, t) ==
    IF c.present /\ ~(c.expiresAt < t)
    THEN [found |-> TRUE, value |-> c.value]
    ELSE [found |-> FALSE, value |-> NoResult]


CacheSetStale(v, t) == [present |-> TRUE, value |-> NoResult, expiresAt |-> t + TtlMs]

\* cache.set with the standard TTL
CacheSet(v, t) == [present |-> TRUE, value |-> v, expiresAt |-> t + TtlMs]

----------------------------------------------------------------------------
(* Trending: the rate limiter *)

DailyGateOffByOne(dr) == dr > DailyLimit
\* dailyRequests >= parseInt(process.env.GNEWS_RATE_LIMIT_PER_DAY || '100')
DailyGate(dr) == dr >= DailyLimit

PacingGateOff(lrt, t) == FALSE
PacingGateShort(lrt, t) == t - lrt < PacingMs - 1
\* now - lastRequestTime < 1000
PacingGate(lrt, t) == t - lrt < PacingMs

checkRateLimitCounting(dr, lrd, lrt, t) ==
    LET dr1  == IF lrd # Day(t) THEN 0 ELSE dr
        lrd1 == IF lrd # Day(t) THEN Day(t) ELSE lrd
        v    == IF DailyGate(dr1) THEN DailyMsg
                ELSE IF PacingGate(lrt, t) THEN PacingMsg
                ELSE "ok"
    IN  [dailyRequests |-> IF v = "ok" THEN dr1 ELSE dr1 + 1,
         lastResetDate |-> lrd1, verdict |-> v]

checkRateLimitPacingFirst(dr, lrd, lrt, t) ==
    LET dr1  == IF lrd # Day(t) THEN 0 ELSE dr
        lrd1 == IF lrd # Day(t) THEN Day(t) ELSE lrd
    IN  [dailyRequests |-> dr1, lastResetDate |-> lrd1,
         verdict |-> IF PacingGate(lrt, t) THEN PacingMsg
                     ELSE IF DailyGate(dr1) THEN DailyMsg
                     ELSE "ok"]

checkRateLimitNoReset(dr, lrd, lrt, t) ==
    [dailyRequests |-> dr, lastResetDate |-> lrd,
     verdict |-> IF DailyGate(dr) THEN DailyMsg
                 ELSE IF PacingGate(lrt, t) THEN PacingMsg
                 ELSE "ok"]

\* checkRateLimit at instant t: the lazy day reset, then the two gates.
\* The reset is kept even when a gate throws.
checkRateLimit(dr, lrd, lrt, t) ==
    LET dr1  == IF lrd # Day(t) THEN 0 ELSE dr
        lrd1 == IF lrd # Day(t) THEN Day(t) ELSE lrd
    IN  [dailyRequests |-> dr1, lastResetDate |-> lrd1,
         verdict |-> IF DailyGate(dr1) THEN DailyMsg
                     ELSE IF PacingGate(lrt, t) THEN PacingMsg
                     ELSE "ok"]

RemainingOffByOne(dr) == Max(0, DailyLimit - dr + 1)
\* remainingRequests of a fresh result
Remaining(dr) == Max(0, DailyLimit - dr)

----------------------------------------------------------------------------
(* Trending: the handler of GET / *)

\* a new request takes the lowest free handler slot (slots are interchangeable)
FreeSlot(r) ==
    /\ treq[r].pc = "idle"
    /\ \A q \in TrendingIds : q < r => treq[q].pc # "idle"

ConsumeUnstamped(dr, t) == [lastRequestTime |-> 0, dailyRequests |-> dr + 1]
ConsumeLost(dr, t) == [lastRequestTime |-> t, dailyRequests |-> dr]
\* the consumption: lastRequestTime = Date.now(); dailyRequests++
Consume(dr, t) == [lastRequestTime |-> t, dailyRequests |-> dr + 1]

RateLimitResponseNoHint(msg) == Response("limited", 429, msg, <<>>, NoResult)
\* the answer to a request the rate limiter rejected
RateLimitResponse(msg) == Response("limited", 429, msg, <<RetryAfter>>, NoResult)

NoApiKeyNever(k) == FALSE
\* !process.env.GNEWS_API_KEY || process.env.GNEWS_API_KEY === 'your_gnews_api_key_here'
NoApiKey(k) == ~k

\* from the entry of the handler to its first await or its early return
TrendingStart(r) ==
    /\ FreeSlot(r)
    /\ LET hit == CacheGet(cache, now)
           rl  == checkRateLimit(dailyRequests, lastResetDate, lastRequestTime, now)
           c   == Consume(rl.dailyRequests, now)
       IN  IF hit.found
           THEN /\ last' = Response("cache", 200, "none", <<>>, hit.value)
                /\ UNCHANGED <<lastRequestTime, dailyRequests, lastResetDate,
                               treq, calls>>
           ELSE IF NoApiKey(apiKeySet)
           THEN /\ last' = Response("nokey", 503, NoKeyMsg, <<>>, NoResult)
                /\ UNCHANGED <<lastRequestTime, dailyRequests, lastResetDate,
                               treq, calls>>
           ELSE IF rl.verdict # "ok"
           THEN /\ last' = RateLimitResponse(rl.verdict)
                /\ dailyRequests' = rl.dailyRequests
                /\ lastResetDate' = rl.lastResetDate
                /\ UNCHANGED <<lastRequestTime, treq, calls>>
           ELSE /\ treq' = [treq EXCEPT ![r] = [pc |-> "awaiting", callAt |-> now]]
                /\ lastRequestTime' = c.lastRequestTime
                /\ dailyRequests' = c.dailyRequests
                /\ lastResetDate' = rl.lastResetDate
                /\ calls' = Append(calls,
                       [at |-> now,
                        seen |-> [dailyRequests |-> rl.dailyRequests,
                                  lastRequestTime |-> lastRequestTime,
                                  lastResetDate |-> rl.lastResetDate]])
                /\ last' = NoResponse
    /\ UNCHANGED <<now, ticks, cache, apiKeySet>>
    /\ UNCHANGED avars

\* the upstream call of r resolved with a usable article list
UpstreamOk(r) ==
    /\ treq[r].pc = "awaiting"
    /\ \E p \in Payloads :
         LET result == [articles |-> p.articles,
                        totalResults |-> IF p.totalArticles # 0
                                         THEN p.totalArticles ELSE p.count,
                        timestamp |-> now,
                        remainingRequests |-> Remaining(dailyRequests)]
         IN  /\ cache' = CacheSet(result, now)
             /\ last' = [Response("fetch", 200, "none", <<>>, result)
                           EXCEPT !.upstream = "ok"]
    /\ treq' = [treq EXCEPT ![r] = IdleReq]
    /\ UNCHANGED <<now, ticks, lastRequestTime, dailyRequests, lastResetDate,
                   apiKeySet, calls>>
    /\ UNCHANGED avars

CatchResponseSilent(kind) == NoResponse

CatchResponseNoHint(kind) ==
    IF kind = "http429"
    THEN Response("fetch", 429, Upstream429Msg, <<>>, NoResult)
    ELSE IF kind = "http401"
    THEN Response("fetch", 503, Upstream401Msg, <<>>, NoResult)
    ELSE Response("fetch", 500, UpstreamFailMsg, <<>>, NoResult)

CatchResponseGeneric(kind) ==
    Response("fetch", 500, UpstreamFailMsg, <<>>, NoResult)

\* the catch block: what the handler answers for a failed upstream call
CatchResponse(kind) ==
    IF kind = "http429"
    THEN Response("fetch", 429, Upstream429Msg, <<RetryAfter>>, NoResult)
    ELSE IF kind = "http401"
    THEN Response("fetch", 503, Upstream401Msg, <<>>, NoResult)
    ELSE Response("fetch", 500, UpstreamFailMsg, <<>>, NoResult)

\* the upstream call of r failed: a 2xx without an article list (or with a
\* malformed article), an HTTP 429, an HTTP 401, any other failure, or the
\* 10 s timeout
UpstreamFail(r) ==
    /\ treq[r].pc = "awaiting"
    /\ \E kind \in {"invalid", "http429", "http401", "error", "timeout"} :
         /\ kind = "timeout" => now - treq[r].callAt >= UpstreamTimeoutMs
         /\ last' = [CatchResponse(kind) EXCEPT !.upstream = kind]
    /\ treq' = [treq EXCEPT ![r] = IdleReq]
    /\ UNCHANGED <<now, ticks, lastRequestTime, dailyRequests, lastResetDate,
                   cache, apiKeySet, calls>>
    /\ UNCHANGED avars

\* time passes
Tick ==
    /\ ticks < MaxTicks
    /\ \E d \in Deltas : now' = now + d
    /\ ticks' = ticks + 1
    /\ last' = NoResponse
    /\ UNCHANGED <<lastRequestTime, dailyRequests, lastResetDate, cache,
                   apiKeySet, treq, calls>>
    /\ UNCHANGED avars

----------------------------------------------------------------------------
(* Analyze: values *)

MinLength == 50
StoredLength == 2000
\* scores are hundredths: 50 is the code's 0.5
HalfScore == 50

RequiredMsg == "Text or URL is required"
NoContentMsg == "Could not extract article content from URL"
ExtractFailMsg == "Failed to extract article from URL. Please try copying the text directly."
TooShortMsg == "Article text is too short for analysis (minimum 50 characters)"
PredictionDownMsg == "AI prediction service is unavailable. Please try again later."
AnalysisFailedMsg == "Analysis failed"

\* a string is the first len characters of a document; len 0 is the empty
\* (or missing) string
Text(doc, len) == [doc |-> doc, len |-> len]
NoText == Text("none", 0)

SubstringWhole(t, n) == t
\* String.prototype.substring(0, n)
Substring(t, n) == Text(t.doc, Min(t.len, n))

Lengths == {0, MinLength - 1, MinLength, StoredLength + 1}

\* req.body.text
Submitted == {Text("body", n) : n \in Lengths}
\* extractResponse.data.text
Extracted == {Text("page", n) : n \in Lengths}

Services == {"prediction", "sentiment", "explanation"}

\* response bodies of the prediction service on a 2xx: JSON null, an object
\* without (or with falsy) fields, and objects with the fields
PredictionBodies ==
    { [null |-> TRUE,  prediction |-> "",     confidence |-> 0],
      [null |-> FALSE, prediction |-> "",     confidence |-> 0],
      [null |-> FALSE, prediction |-> "real", confidence |-> 87],
      [null |-> FALSE, prediction |-> "fake", confidence |-> 60] }

FallbackSentiment == [label |-> "neutral", score |-> HalfScore]
FallbackExplanation == [keywords |-> <<>>, importance_scores |-> <<>>]

\* response bodies of the sentiment service on a 2xx: without data.sentiment,
\* or with it
SentimentBodies ==
    { [has |-> FALSE, value |-> FallbackSentiment],
      [has |-> TRUE,  value |-> [label |-> "positive", score |-> 60]] }

\* response bodies of the explanation service on a 2xx
ExplanationBodies ==
    { [has |-> FALSE, value |-> FallbackExplanation],
      [has |-> TRUE,  value |-> [keywords |-> <<"shocking", "secret">>,
                                 importance_scores |-> <<70, 30>>]] }

NoBody == [null |-> TRUE, prediction |-> "", confidence |-> 0,
           has |-> FALSE, value |-> FallbackSentiment]

\* a call that was not issued, and one that is in flight
\* nth tells in which place the call settled among the three (0: not yet)
NotIssued == [status |-> "none", why |-> "none", data |-> NoBody, nth |-> 0]
Pending == [status |-> "pending", why |-> "none", data |-> NoBody, nth |-> 0]

\* the outcomes Promise.allSettled can report for the call to service s:
\* rejected (a failure or the 30 s timeout) or fulfilled with a body
Outcomes(s) ==
    {[status |-> "rejected", why |-> w, data |-> NoBody, nth |-> 0] :
        w \in {"failed", "timeout"}}
    \cup
    {[status |-> "fulfilled", why |-> "none", data |-> b, nth |-> 0] :
        b \in IF s = "prediction" THEN PredictionBodies
              ELSE IF s = "sentiment" THEN SentimentBodies
              ELSE ExplanationBodies}

NoAnalysis == [prediction |-> "none", confidence |-> 0,
               sentiment |-> FallbackSentiment, explanation |-> FallbackExplanation,
               article_text |-> NoText, timestamp |-> 0]

NoAResponse == [status |-> 0, error |-> "none", body |-> NoAnalysis]

AResponse(status, error, body) == [status |-> status, error |-> error, body |-> body]

IdleAnalyze == [pc |-> "idle", text |-> NoText, is_url |-> FALSE, db |-> FALSE,
                articleText |-> NoText, resolved |-> FALSE]

----------------------------------------------------------------------------
(* Analyze: the handler of POST / *)

TooShortOffByOne(t) == t.len < MinLength - 1
\* articleText.length < 50
TooShort(t) == t.len < MinLength

\* the three parallel requests, each with the whole articleText
FanOut(t) == << [to |-> "prediction", text |-> t],
                [to |-> "sentiment", text |-> t],
                [to |-> "explanation", text |-> t] >>

\* the length validation and, when it passes, the fan-out
ValidateAndFanOut(q, t) ==
    IF TooShort(t)
    THEN /\ areq' = [q EXCEPT !.pc = "done", !.articleText = t, !.resolved = TRUE]
         /\ aresp' = AResponse(400, TooShortMsg, NoAnalysis)
         /\ UNCHANGED <<settled, out>>
    ELSE /\ areq' = [q EXCEPT !.pc = "analyzing", !.articleText = t, !.resolved = TRUE]
         /\ settled' = [s \in Services |-> Pending]
         /\ out' = out \o FanOut(t)
         /\ UNCHANGED aresp

\* a request arrives: from the entry of the handler to its first await or
\* its early return; db is what the middleware puts in req.db
AnalyzeReceive ==
    /\ areq.pc = "idle"
    /\ \E text \in Submitted, is_url \in BOOLEAN, db \in BOOLEAN :
         LET q == [areq EXCEPT !.text = text, !.is_url = is_url, !.db = db]
         IN  IF text.len = 0
             THEN /\ areq' = [q EXCEPT !.pc = "done"]
                  /\ aresp' = AResponse(400, RequiredMsg, NoAnalysis)
                  /\ UNCHANGED <<settled, out>>
             ELSE IF is_url
             THEN /\ areq' = [q EXCEPT !.pc = "extracting"]
                  /\ out' = Append(out, [to |-> "extract", text |-> text])
                  /\ UNCHANGED <<settled, aresp>>
             ELSE ValidateAndFanOut(q, text)
    /\ UNCHANGED stored
    /\ UNCHANGED tvars

\* the extraction call failed or timed out
ExtractFail ==
    /\ areq.pc = "extracting"
    /\ areq' = [areq EXCEPT !.pc = "done"]
    /\ aresp' = AResponse(400, ExtractFailMsg, NoAnalysis)
    /\ UNCHANGED <<settled, out, stored>>
    /\ UNCHANGED tvars

NoContentNever(t) == FALSE
\* !(extractResponse.data && extractResponse.data.text)
NoContent(t) == t.len = 0

\* the extraction call answered 2xx, with or without a text
ExtractOk ==
    /\ areq.pc = "extracting"
    /\ \E t \in Extracted :
         IF NoContent(t)
         THEN /\ areq' = [areq EXCEPT !.pc = "done"]
              /\ aresp' = AResponse(400, NoContentMsg, NoAnalysis)
              /\ UNCHANGED <<settled, out>>
         ELSE ValidateAndFanOut(areq, t)
    /\ UNCHANGED stored
    /\ UNCHANGED tvars

\* number of the calls that have settled
SettledCount ==
    Cardinality({s \in Services : settled[s].status \in {"fulfilled", "rejected"}})

\* one of the three calls settles; the handler stays suspended
CallSettle(s) ==
    /\ areq.pc = "analyzing"
    /\ settled[s].status = "pending"
    /\ \E o \in Outcomes(s) :
         settled' = [settled EXCEPT ![s] = [o EXCEPT !.nth = SettledCount + 1]]
    /\ UNCHANGED <<areq, aresp, out, stored>>
    /\ UNCHANGED tvars

JoinNeverFails(p) == FALSE
\* predictionResponse.status === 'rejected'
PredictionRejected(p) == p.status = "rejected"

\* reading predictionResponse.value.data.prediction throws a TypeError when
\* there is no value (a rejected call) or the body is null
ReadThrows(p) == p.status # "fulfilled" \/ p.data.null

\* x || y for a string and for a number
OrString(x, y) == IF x = "" THEN y ELSE x
OrNumber(x, y) == IF x = 0 THEN y ELSE x

SecondaryIfEarly(o, fallback) ==
    IF o.status = "fulfilled" /\ o.data.has /\ o.nth < 3 THEN o.data.value ELSE fallback

\* the fallback substitution of one secondary signal
Secondary(o, fallback) ==
    IF o.status = "fulfilled" /\ o.data.has THEN o.data.value ELSE fallback

\* the result object
Result(p, s, e, t, at) ==
    [prediction |-> OrString(p.data.prediction, "unknown"),
     confidence |-> OrNumber(p.data.confidence, HalfScore),
     sentiment |-> Secondary(s, FallbackSentiment),
     explanation |-> Secondary(e, FallbackExplanation),
     article_text |-> Substring(t, StoredLength),
     timestamp |-> at]

PredictionSettled == settled["prediction"].status \in {"fulfilled", "rejected"}
\* Promise.allSettled resolves: every one of the three calls has settled
AllSettled == \A s \in Services : settled[s].status \in {"fulfilled", "rejected"}

StoreAlways(q) == TRUE
\* if (req.db)
StoreAvailable(q) == q.db

\* the handler awaits insertOne: nothing is sent while the write is in flight
WhileStoring(result) == NoAResponse

StoreResponseOrError(ok, result) ==
    IF ok THEN AResponse(200, "none", result)
    ELSE AResponse(500, AnalysisFailedMsg, NoAnalysis)
\* after insertOne: a write error is caught and logged, then res.json(result)
StoreResponse(ok, result) == AResponse(200, "none", result)

\* all three calls have settled: the continuation after Promise.allSettled,
\* up to the await of insertOne or to the response
Join ==
    /\ areq.pc = "analyzing"
    /\ AllSettled
    /\ LET p == settled["prediction"]
           result == Result(p, settled["sentiment"], settled["explanation"],
                            areq.articleText, now)
       IN  IF PredictionRejected(p)
           THEN /\ areq' = [areq EXCEPT !.pc = "done"]
                /\ aresp' = AResponse(503, PredictionDownMsg, NoAnalysis)
                /\ UNCHANGED out
           ELSE IF ReadThrows(p)
           THEN /\ areq' = [areq EXCEPT !.pc = "done"]
                /\ aresp' = AResponse(500, AnalysisFailedMsg, NoAnalysis)
                /\ UNCHANGED out
           ELSE IF StoreAvailable(areq)
           THEN /\ areq' = [areq EXCEPT !.pc = "storing"]
                /\ out' = Append(out, [to |-> "db", text |-> result.article_text])
                /\ aresp' = WhileStoring(result)
           ELSE /\ areq' = [areq EXCEPT !.pc = "done"]
                /\ aresp' = AResponse(200, "none", result)
                /\ UNCHANGED out
    /\ UNCHANGED <<settled, stored>>
    /\ UNCHANGED tvars

\* insertOne settled, with the document stored or with an error that is
\* logged; the result is sent either way
StoreSettle ==
    /\ areq.pc = "storing"
    /\ LET result == Result(settled["prediction"], settled["sentiment"],
                            settled["explanation"], areq.articleText, now)
       IN  \E ok \in BOOLEAN :
              /\ stored' = IF ok THEN Append(stored, result) ELSE stored
              /\ aresp' = StoreResponse(ok, result)
    /\ areq' = [areq EXCEPT !.pc = "done"]
    /\ UNCHANGED <<settled, out>>
    /\ UNCHANGED tvars

----------------------------------------------------------------------------

\* the module is loaded at process start: the counter is 0 for the day of
\* the start, no consumption was made, the cache is empty
Init ==
    /\ now \in StartInstants
    /\ ticks = 0
    /\ lastRequestTime = 0
    /\ dailyRequests = 0
    /\ lastResetDate = Day(now)
    /\ cache = NoEntry
    /\ apiKeySet \in BOOLEAN
    /\ treq = [r \in TrendingIds |-> IdleReq]
    /\ last = NoResponse
    /\ calls = <<>>
    /\ areq = IdleAnalyze
    /\ settled = [s \in Services |-> NotIssued]
    /\ aresp = NoAResponse
    /\ out = <<>>
    /\ stored = <<>>

TrendingNext ==
    \/ \E r \in TrendingIds : TrendingStart(r)
    \/ \E r \in TrendingIds : UpstreamOk(r)
    \/ \E r \in TrendingIds : UpstreamFail(r)
    \/ Tick

TrendingSpec == Init /\ [][TrendingNext]_vars

AnalyzeNext ==
    \/ AnalyzeReceive
    \/ ExtractFail
    \/ ExtractOk
    \/ \E s \in Services : CallSettle(s)
    \/ Join
    \/ StoreSettle

AnalyzeSpec == Init /\ [][AnalyzeNext]_vars

Next == TrendingNext \/ AnalyzeNext

Spec == Init /\ [][Next]_vars

\* no trending request was handled yet, the clock was not advanced
TrendingUntouched ==
    /\ ticks = 0
    /\ calls = <<>>
    /\ last = NoResponse
    /\ \A r \in TrendingIds : treq[r].pc = "idle"

\* the two routers share no state: a behaviour of the server is a behaviour
\* of each route, so the routes are explored one per behaviour
ServeNext ==
    \/ areq.pc = "idle" /\ TrendingNext
    \/ TrendingUntouched /\ AnalyzeNext

\* every collaborator call settles (with a success, a failure or its
\* timeout), and the event loop runs the continuation of a settled await
Settles ==
    /\ \A r \in TrendingIds : WF_vars(UpstreamOk(r) \/ UpstreamFail(r))
    /\ WF_vars(ExtractOk \/ ExtractFail)
    /\ WF_vars(\E s \in Services : CallSettle(s))
    /\ WF_vars(Join)
    /\ WF_vars(StoreSettle)

ServeSpec == Init /\ [][ServeNext]_vars /\ Settles

----------------------------------------------------------------------------
(* Properties of the trending route *)

\* number of upstream calls started on calendar day d
PassesOn(d) == Cardinality({i \in DOMAIN calls : Day(calls[i].at) = d})

\* instant of the latest upstream call started
LastCallAt == calls[Len(calls)].at

\* the step handled the synchronous part of a trending request
Requested ==
    \/ last'.path \in {"cache", "nokey", "limited"}
    \/ Len(calls') > Len(calls)

\* by the history of calls, the limiter has quota and pacing room now
Admitted ==
    /\ PassesOn(Day(now)) < DailyLimit
    /\ calls = <<>> \/ now - LastCallAt >= PacingMs

\* C1: check and consumption are one step: every passed check is counted
\* before any other check runs, no two requests pass a check made against
\* the same limiter state, and dailyRequests never exceeds the daily limit.
C1_NoDoubleSpend ==
    /\ dailyRequests <= DailyLimit
    /\ \A i, j \in DOMAIN calls : i # j => calls[i].seen # calls[j].seen
    /\ PassesOn(lastResetDate) = dailyRequests
    /\ calls # <<>> => lastRequestTime = LastCallAt

\* C1 witness: two requests are suspended in their upstream calls together,
\* after both passed the limiter
C1_Witness ==
    /\ Cardinality({r \in TrendingIds : treq[r].pc = "awaiting"}) >= 2
    /\ dailyRequests = DailyLimit

\* C2: on no calendar day do more than DailyLimit consumptions succeed, and
\* a rejected attempt carries 'Daily rate limit exceeded' exactly when
\* DailyLimit consumptions already succeeded that day.
C2_DailyQuota ==
    /\ \A i \in DOMAIN calls : PassesOn(Day(calls[i].at)) <= DailyLimit
    /\ last.path = "limited" =>
          (last.error = DailyMsg <=> PassesOn(Day(now)) = DailyLimit)

\* C2 witness: the attempt after DailyLimit consumptions of the day was
\* rejected by the daily gate
C2_Witness ==
    /\ last.path = "limited"
    /\ last.error = DailyMsg
    /\ PassesOn(Day(now)) = DailyLimit

\* C3 as claimed: an attempt less than 1000 ms after the previous
\* consumption fails with the pacing error, whatever quota remains.
C3_Original ==
    /\ \A i \in DOMAIN calls : i > 1 => calls[i].at - calls[i - 1].at >= PacingMs
    /\ (last.path = "limited" /\ calls # <<>> /\ now - LastCallAt < PacingMs)
          => last.error = PacingMsg

\* C3 amended: an attempt less than 1000 ms after the previous consumption
\* fails, with the pacing error while quota remains for the day and with
\* the daily error when none remains.
C3_Pacing ==
    /\ \A i \in DOMAIN calls : i > 1 => calls[i].at - calls[i - 1].at >= PacingMs
    /\ (last.path = "limited" /\ calls # <<>> /\ now - LastCallAt < PacingMs)
          => /\ last.status = 429
             /\ last.error = IF PassesOn(Day(now)) < DailyLimit
                             THEN PacingMsg ELSE DailyMsg

\* C3 witness: an attempt 999 ms or less after a consumption was rejected
\* by the pacing gate
C3_Witness ==
    /\ last.error = PacingMsg
    /\ calls # <<>>
    /\ now - LastCallAt < PacingMs
    /\ now > LastCallAt

\* C8: a request that finds an unexpired entry is answered with the cached
\* value, and a request answered from the cache starts no upstream call and
\* leaves the limiter, the cache and the requests in flight as they were.
C8_CacheHit ==
    [][ /\ (Requested /\ cache.present /\ now < cache.expiresAt)
              => last'.path = "cache"
        /\ last'.path = "cache"
              => /\ last'.status = 200
                 /\ last'.body = cache.value
                 /\ UNCHANGED <<lastRequestTime, dailyRequests, lastResetDate,
                                calls, treq, cache>> ]_vars

\* C8 witness: a hit served while the day's quota is used up and the last
\* consumption is less than 1000 ms old
C8_Witness ==
    /\ last.path = "cache"
    /\ lastResetDate = Day(now)
    /\ dailyRequests >= DailyLimit
    /\ now - lastRequestTime < PacingMs

\* C9 as claimed: from now >= expiresAt on the entry is never served and
\* the request fetches upstream.
C9_Original ==
    /\ last.path = "cache" => now < cache.expiresAt
    /\ (cache.present /\ now >= cache.expiresAt)
          => last.path \notin {"nokey", "limited"}

\* C9 amended: once now > expiresAt the entry is never served and the
\* request goes on as a miss: it starts an upstream call when the API key is
\* set and the limiter admits it, and is answered 503 or 429 without a call
\* otherwise.
C9_Expiry ==
    [][ (Requested /\ cache.present /\ now > cache.expiresAt)
          => /\ last'.path # "cache"
             /\ (apiKeySet /\ Admitted)
                   => /\ Len(calls') = Len(calls) + 1
                      /\ calls'[Len(calls')].at = now
                      /\ last' = NoResponse
             /\ ~(apiKeySet /\ Admitted)
                   => /\ calls' = calls
                      /\ last'.status \in {503, 429} ]_vars

\* C9 witness: an upstream call was started by a request that found the
\* entry expired
C9_Witness ==
    /\ cache.present
    /\ now > cache.expiresAt
    /\ \E r \in TrendingIds : treq[r].pc = "awaiting" /\ treq[r].callAt = now

\* C10: on a miss with the API key set, a request the limiter rejects is
\* answered 429 with retryAfter 3600 and the gate's message, and no upstream
\* call is started.
C10_RateLimited ==
    [][ /\ (Requested /\ ~CacheGet(cache, now).found /\ apiKeySet /\ ~Admitted)
              => /\ last'.path = "limited"
                 /\ last'.error = IF PassesOn(Day(now)) >= DailyLimit
                                  THEN DailyMsg ELSE PacingMsg
        /\ last'.path = "limited"
              => /\ last'.status = 429
                 /\ last'.retryAfter = <<RetryAfter>>
                 /\ last'.body = NoResult
                 /\ calls' = calls
                 /\ treq' = treq
                 /\ cache' = cache ]_vars

\* C10 witness: the miss after DailyLimit fetches of the day was answered
\* 429 with the daily message and the retry hint
C10_Witness ==
    /\ last.status = 429
    /\ last.retryAfter = <<RetryAfter>>
    /\ last.error = DailyMsg
    /\ Len(calls) = DailyLimit
    /\ \A i \in DOMAIN calls : Day(calls[i].at) = Day(now)

----------------------------------------------------------------------------
(* Properties of the analyze route *)

\* the AI calls issued so far
AnalysisCalls == {i \in DOMAIN out : out[i].to \in Services}

\* C4: when the prediction call is rejected (failure or timeout) the request
\* is answered 503 without a result and nothing is written to the store,
\* whatever the other two calls did.
C4_PredictionDown ==
    settled["prediction"].status = "rejected"
       => /\ stored = <<>>
          /\ \A i \in DOMAIN out : out[i].to # "db"
          /\ areq.pc \in {"analyzing", "done"}
          /\ areq.pc = "done"
                => /\ aresp.status = 503
                   /\ aresp.error = PredictionDownMsg
                   /\ aresp.body = NoAnalysis

\* C4 witness: prediction timed out while sentiment and explanation both
\* succeeded with data, and the request was answered
C4_Witness ==
    /\ areq.pc = "done"
    /\ settled["prediction"].why = "timeout"
    /\ settled["sentiment"].status = "fulfilled" /\ settled["sentiment"].data.has
    /\ settled["explanation"].status = "fulfilled" /\ settled["explanation"].data.has

\* C5 as claimed: whenever the prediction call succeeded, the answer is a
\* result with a prediction and a confidence.
C5_Original ==
    (areq.pc = "done" /\ settled["prediction"].status = "fulfilled")
       => /\ aresp.status = 200
          /\ aresp.body.prediction # "none"
          /\ aresp.body.confidence > 0

\* C6 as claimed: with prediction succeeded the request succeeds, and a
\* rejected sentiment or explanation call is replaced by its fallback.
C6_Original ==
    (areq.pc = "done" /\ settled["prediction"].status = "fulfilled")
       => /\ aresp.status = 200
          /\ settled["sentiment"].status = "rejected"
                => aresp.body.sentiment = [label |-> "neutral", score |-> 50]
          /\ settled["explanation"].status = "rejected"
                => aresp.body.explanation = [keywords |-> <<>>, importance_scores |-> <<>>]

\* C7: a resolved text shorter than 50 characters is answered 400 and none
\* of the three AI calls is ever issued for the request.
C7_TooShort ==
    LET t == IF areq.resolved THEN areq.articleText ELSE areq.text
    IN  (areq.pc # "idle" /\ (areq.resolved \/ ~areq.is_url) /\ t.len < 50)
           => /\ AnalysisCalls = {}
              /\ areq.pc = "done"
              /\ aresp.status = 400
              /\ aresp.error \in {TooShortMsg, RequiredMsg}
              /\ aresp.body = NoAnalysis

\* C7 witness: a URL whose extracted text has 49 characters was rejected
C7_Witness ==
    /\ areq.pc = "done"
    /\ areq.is_url
    /\ areq.resolved
    /\ areq.articleText.len = 49
    /\ aresp.error = TooShortMsg


----------------------------------------------------------------------------
(* Further properties of the trending route *)

\* the step ran checkRateLimit: a request that missed the cache with the API
\* key set
Checked == Requested /\ ~CacheGet(cache, now).found /\ apiKeySet

\* C13: an upstream call that failed, timed out or answered without an
\* article list is answered with an error and no feed; HTTP 429 and HTTP 401
\* each have their own message, any other failure the generic one.
C13_UpstreamErrors ==
    last.upstream \notin {"none", "ok"}
       => /\ last.body = NoResult
          /\ last.status \in {429, 503, 500}
          /\ last.error = IF last.upstream = "http429"
                          THEN "GNews API rate limit exceeded"
                          ELSE IF last.upstream = "http401"
                          THEN "Invalid GNews API key"
                          ELSE "Failed to fetch trending news"

\* C13 witness: an admitted request whose upstream call timed out was answered
C13_Witness ==
    /\ last.upstream = "timeout"
    /\ last.status = 500
    /\ calls # <<>>

\* C16: a rate-limit check on a new day sets the counter to 0 and the day to
\* today before the daily gate; on the same day a check never lowers the
\* counter; nothing but a rate-limit check changes counter or day.
C16_LazyReset ==
    [][ /\ (Checked /\ lastResetDate # Day(now))
              => /\ lastResetDate' = Day(now)
                 /\ last'.error # DailyMsg
                 /\ dailyRequests' = IF calls' # calls THEN 1 ELSE 0
        /\ (Checked /\ lastResetDate = Day(now))
              => /\ lastResetDate' = lastResetDate
                 /\ dailyRequests' >= dailyRequests
        /\ ~Checked => UNCHANGED <<dailyRequests, lastResetDate>> ]_vars

\* C16 witness: the first check of a new day was rejected by the pacing gate
\* and left the counter reset
C16_Witness ==
    /\ calls # <<>>
    /\ Day(calls[1].at) < Day(now)
    /\ lastResetDate = Day(now)
    /\ dailyRequests = 0
    /\ last.error = PacingMsg

\* C17: a request never populates the cache when another request
\* that overlapped it (it populated the cache after this one missed) already
\* fetched and populated it.
C17_Original ==
    [][ \A r \in TrendingIds :
          (treq[r].pc = "awaiting" /\ treq'[r].pc = "idle" /\ last'.upstream = "ok")
             => ~(cache.present /\ cache.value.timestamp >= treq[r].callAt) ]_vars

\* C18: the cache entry changes only in the step of a successful fetch, and
\* then holds the result that step answers with; a step that answers with an
\* error leaves the entry as it was.
C18_CacheWrites ==
    [][ /\ cache' # cache
              => /\ last'.upstream = "ok"
                 /\ last'.status = 200
        /\ last'.upstream = "ok"
              => /\ cache'.present
                 /\ cache'.value = last'.body
                 /\ last'.body.timestamp = now
                 /\ last'.body.articles \in {"feedA", "feedB"}
        /\ last'.status \notin {0, 200} => cache' = cache ]_vars

\* C18 witness: after at least two upstream calls the entry holds the result
\* of the fetch that succeeded last
C18_Witness ==
    /\ Len(calls) >= 2
    /\ last.upstream = "ok"
    /\ cache.value = last.body
    /\ cache.value.timestamp > calls[1].at

----------------------------------------------------------------------------
(* Further properties of the analyze route *)

ExtractCalls == {i \in DOMAIN out : out[i].to = "extract"}
StoreCalls == {i \in DOMAIN out : out[i].to = "db"}

\* C11: a request with a URL calls the extraction service exactly once, a
\* request with a text never; when the extraction fails or yields no text the
\* answer is 400 with an extraction message and neither an AI call nor a
\* write is issued.
C11_Extraction ==
    /\ areq.pc # "idle"
          => Cardinality(ExtractCalls) =
                IF areq.is_url /\ areq.text.len > 0 THEN 1 ELSE 0
    /\ (areq.pc = "done" /\ areq.is_url /\ areq.text.len > 0
          /\ (~areq.resolved \/ areq.articleText.len = 0))
          => /\ aresp.status = 400
             /\ aresp.error \in {ExtractFailMsg, NoContentMsg}
             /\ AnalysisCalls = {}
             /\ StoreCalls = {}
             /\ stored = <<>>

\* C11 witness: the extraction of a URL yielded no text and the request was
\* rejected
C11_Witness ==
    /\ areq.pc = "done"
    /\ areq.is_url
    /\ aresp.error = NoContentMsg
    /\ Cardinality(ExtractCalls) = 1

\* C12: with the prediction call succeeded, the answer is fixed by the three
\* outcomes and the text alone: it is the same with no store, with a write
\* that succeeded and with a write that failed.
C12_PersistenceSilent ==
    (areq.pc = "done" /\ settled["prediction"].status = "fulfilled")
       => aresp = IF settled["prediction"].data.null
                  THEN AResponse(500, AnalysisFailedMsg, NoAnalysis)
                  ELSE AResponse(200, "none",
                                 Result(settled["prediction"], settled["sentiment"],
                                        settled["explanation"], areq.articleText, now))

\* C12 witness: the write failed (nothing stored) and the result was sent
C12_Witness ==
    /\ areq.pc = "done"
    /\ areq.db
    /\ StoreCalls # {}
    /\ stored = <<>>
    /\ aresp.status = 200

\* C14: no answer is sent for a request whose calls were issued before all
\* three have settled.
C14_JoinAllSettled ==
    /\ areq.pc = "analyzing" => aresp = NoAResponse
    /\ aresp.status \in {200, 503, 500}
          => \A s \in Services : settled[s].status \in {"fulfilled", "rejected"}

\* C14 witness: prediction was rejected first, and the 503 was sent once the
\* other two had settled as well
C14_Witness ==
    /\ areq.pc = "done"
    /\ aresp.status = 503
    /\ settled["prediction"].nth = 1

\* C15: status, prediction, confidence, sentiment and explanation of the
\* answer are fixed by the three outcomes, whatever the order they settled in.
C15_OrderFree ==
    LET p == settled["prediction"]
        s == settled["sentiment"]
        e == settled["explanation"]
    IN  (areq.pc = "done" /\ AnalysisCalls # {})
           => /\ aresp.status = IF p.status = "rejected" THEN 503
                                ELSE IF p.data.null THEN 500 ELSE 200
              /\ aresp.status = 200
                    => /\ aresp.body.prediction =
                             IF p.data.prediction = "" THEN "unknown"
                             ELSE p.data.prediction
                       /\ aresp.body.confidence =
                             IF p.data.confidence = 0 THEN 50 ELSE p.data.confidence
                       /\ aresp.body.sentiment =
                             IF s.status = "fulfilled" /\ s.data.has
                             THEN s.data.value
                             ELSE [label |-> "neutral", score |-> 50]
                       /\ aresp.body.explanation =
                             IF e.status = "fulfilled" /\ e.data.has
                             THEN e.data.value
                             ELSE [keywords |-> <<>>, importance_scores |-> <<>>]

\* C15 witness: prediction settled first and sentiment last, with data that
\* reached the result
C15_Witness ==
    /\ areq.pc = "done"
    /\ aresp.status = 200
    /\ settled["prediction"].nth = 1
    /\ settled["sentiment"].nth = 3
    /\ settled["sentiment"].data.has
    /\ aresp.body.sentiment = settled["sentiment"].data.value

\* C19 as claimed: every successful analysis issued exactly one write.
C19_Original ==
    (areq.pc = "done" /\ aresp.status = 200) => Cardinality(StoreCalls) = 1

\* C19 amended: an answered request issued one write when it succeeded with
\* a store connected and none otherwise; at most one document is stored; the
\* state of the trending route is not touched.
C19_Writes ==
    /\ areq.pc = "done"
          => Cardinality(StoreCalls) =
                IF aresp.status = 200 /\ areq.db THEN 1 ELSE 0
    /\ Cardinality(StoreCalls) <= 1
    /\ Len(stored) <= Cardinality(StoreCalls)
    /\ dailyRequests = 0 /\ lastRequestTime = 0 /\ cache = NoEntry /\ calls = <<>>

\* C19 witness: a successful analysis with a store connected wrote once
C19_Witness ==
    /\ areq.pc = "done"
    /\ aresp.status = 200
    /\ areq.db
    /\ Cardinality(StoreCalls) = 1
    /\ Len(stored) = 1

\* C20: while the write is in flight the result was already sent.
C20_Original == areq.pc = "storing" => aresp.status = 200

----------------------------------------------------------------------------
(* Properties of the results and of the limiter's frame *)

\* C22: the prediction of every result sent (and of every document stored)
\* is 'real' or 'fake'.
C22_Original ==
    /\ aresp.status = 200 => aresp.body.prediction \in {"real", "fake"}
    /\ \A i \in DOMAIN stored : stored[i].prediction \in {"real", "fake"}

\* C23 as claimed: every rate-limit rejection and every answer to a failed
\* upstream call carries a retry hint.
C23_Original ==
    (last.path = "limited" \/ last.upstream \notin {"none", "ok"})
       => last.retryAfter # <<>>

\* C23 amended: the rate-limit rejections and the answer to an upstream 429
\* carry retryAfter 3600; the answers to an upstream 401 and to any other
\* upstream failure carry no retry hint.
C23_RetryHints ==
    /\ last.path = "limited" => last.retryAfter = <<3600>>
    /\ last.upstream = "http429" => last.retryAfter = <<3600>>
    /\ last.upstream \in {"http401", "invalid", "error", "timeout"}
          => last.retryAfter = <<>>
    /\ last.retryAfter # <<>> => last.status = 429

\* C23 witness: an upstream 429 was answered 429 with the hint
C23_Witness ==
    /\ last.upstream = "http429"
    /\ last.status = 429
    /\ last.retryAfter = <<3600>>

\* C24: each of the three AI calls receives the whole resolved text; the
\* result sent, the document handed to the store and the document stored
\* hold its first min(2000, length) characters.
C24_Truncation ==
    LET whole == areq.articleText
        cut == [doc |-> whole.doc,
                len |-> IF whole.len < 2000 THEN whole.len ELSE 2000]
    IN  /\ \A i \in AnalysisCalls : out[i].text = whole
        /\ AnalysisCalls # {} => Cardinality(AnalysisCalls) = 3
        /\ aresp.status = 200 => aresp.body.article_text = cut
        /\ \A i \in StoreCalls : out[i].text = cut
        /\ \A i \in DOMAIN stored : stored[i].article_text = cut

\* C24 witness: the text extracted from a URL has 2001 characters; the calls
\* got all of them and the result holds 2000
C24_Witness ==
    /\ areq.pc = "done"
    /\ areq.is_url
    /\ areq.articleText.len = 2001
    /\ aresp.status = 200
    /\ aresp.body.article_text.len = 2000
    /\ Len(stored) = 1
    /\ \A i \in AnalysisCalls : out[i].text.len = 2001

\* C25: the step that starts an upstream call counts it and stamps it
\* before the call; the step that ends a call, with a result or with any
\* failure, leaves counter, day and stamp as they are.
C25_NoRefund ==
    [][ /\ Len(calls') > Len(calls)
              => /\ dailyRequests' =
                       (IF lastResetDate = Day(now) THEN dailyRequests ELSE 0) + 1
                 /\ lastRequestTime' = now
        /\ last'.upstream # "none"
              => UNCHANGED <<dailyRequests, lastResetDate, lastRequestTime>> ]_vars

\* C25 witness: every upstream call of the day failed (the cache was never
\* populated), and the day's quota is used up by them
C25_Witness ==
    /\ ~cache.present
    /\ \A r \in TrendingIds : treq[r].pc = "idle"
    /\ last.upstream = "invalid"
    /\ dailyRequests = DailyLimit
    /\ lastRequestTime = LastCallAt

\* C26: any two upstream calls were started at least 1000 ms apart, and no
\* calendar day has more than DailyLimit calls started in it.
C26_CallSpacing ==
    /\ \A i, j \in DOMAIN calls : i < j => calls[j].at - calls[i].at >= 1000
    /\ \A d \in {Day(calls[i].at) : i \in DOMAIN calls} :
          Cardinality({i \in DOMAIN calls : Day(calls[i].at) = d}) <= DailyLimit

\* C26 witness: two calls in flight together, started exactly 1000 ms apart,
\* use up the day's quota
C26_Witness ==
    /\ Len(calls) >= 2
    /\ calls[2].at - calls[1].at = 1000
    /\ \A r \in TrendingIds : r <= 2 => treq[r].pc = "awaiting"
    /\ PassesOn(Day(now)) = DailyLimit

\* C27: a request the limiter rejects leaves the stamp, the calls, the cache
\* and the requests in flight as they were; counter and day are unchanged
\* on the same day and become 0 and today on a new day.
C27_FailedCheck ==
    [][ last'.path = "limited"
          => /\ UNCHANGED <<lastRequestTime, calls, cache, treq>>
             /\ IF lastResetDate = Day(now)
                THEN UNCHANGED <<dailyRequests, lastResetDate>>
                ELSE dailyRequests' = 0 /\ lastResetDate' = Day(now) ]_vars

\* C27 witness: a check made a pacing interval or more after the last
\* consumption was rejected by the daily gate, the stamp still that of the
\* last call
C27_Witness ==
    /\ last.path = "limited"
    /\ last.error = DailyMsg
    /\ dailyRequests = DailyLimit
    /\ lastRequestTime = LastCallAt
    /\ now - lastRequestTime >= PacingMs

\* C28: a check made with the day's quota used up and less than 1000 ms
\* after the last consumption fails with the daily error.
C28_DailyFirst ==
    [][ (Checked /\ lastResetDate = Day(now) /\ dailyRequests >= DailyLimit
           /\ now - lastRequestTime < 1000)
          => /\ last'.path = "limited"
             /\ last'.error = "Daily rate limit exceeded" ]_vars

\* C28 witness: such a check was rejected with the daily error
C28_Witness ==
    /\ last.error = DailyMsg
    /\ lastResetDate = Day(now)
    /\ dailyRequests >= DailyLimit
    /\ now - lastRequestTime < PacingMs

\* C29: without an API key a request that misses the cache is answered 503
\* and leaves limiter, cache, calls and requests in flight as they were, so
\* no upstream call is ever made; a request that finds an entry is served
\* from the cache without the key being looked at.
C29_NoKey ==
    [][ /\ (Requested /\ ~CacheGet(cache, now).found /\ ~apiKeySet)
              => /\ last'.path = "nokey"
                 /\ last'.status = 503
                 /\ last'.error = NoKeyMsg
                 /\ UNCHANGED <<dailyRequests, lastResetDate, lastRequestTime,
                                cache, calls, treq>>
        /\ ~apiKeySet => calls' = <<>>
        /\ (Requested /\ CacheGet(cache, now).found)
              => last'.path = "cache" /\ last'.status = 200 ]_vars

\* C29 witness: a request on a new day was answered 503 for the missing key
\* and the limiter's day was not reset
C29_Witness ==
    /\ last.path = "nokey"
    /\ last.status = 503
    /\ lastResetDate # Day(now)
    /\ dailyRequests = 0

----------------------------------------------------------------------------
(* Properties of both routes *)

\* the analyze request is suspended in an await
Suspended == areq.pc \in {"extracting", "analyzing", "storing"}

\* C21: with every collaborator call settling, a request suspended in a call
\* is eventually answered; a request is answered in the step that ends it
\* and in no other, so it gets one response, whatever the calls did.
C21_OneResponse ==
    /\ [][ /\ aresp.status # 0 => aresp' = aresp
           /\ (areq.pc # "done" /\ areq'.pc = "done") <=> (aresp.status = 0 /\ aresp'.status # 0)
           /\ \A r \in TrendingIds :
                 (treq[r].pc = "awaiting" /\ treq'[r].pc = "idle")
                    => /\ last'.status # 0
                       /\ last'.upstream # "none"
           /\ last'.upstream # "none"
                 => Cardinality({r \in TrendingIds : treq[r] # treq'[r]}) = 1 ]_vars
    /\ Suspended ~> (areq.pc = "done" /\ aresp.status # 0)
    /\ \A r \in TrendingIds : (treq[r].pc = "awaiting") ~> (treq[r].pc = "idle")

\* C21 witness: both handler slots are idle again after an upstream call was
\* refused with HTTP 401 and answered 503
C21_Witness ==
    /\ last.upstream = "http401"
    /\ last.status = 503
    /\ \A r \in TrendingIds : treq[r].pc = "idle"

====
